---- MODULE Spec2Model ----
(***************************************************************************)
(* Model of the Replk8 voice agent webhook controller (src/src/app.py)     *)
(* and of the services it calls.  One action per webhook handler and per   *)
(* resumption of a suspended coroutine.  The event loop is single          *)
(* threaded: a handler runs atomically up to the next point where it       *)
(* really yields (the HTTP download inside transcribe_audio, and           *)
(* asyncio.sleep).  The telnyx_service methods and generate_response are   *)
(* "async def" but only make blocking calls, so awaiting them never yields.*)
(***************************************************************************)
EXTENDS Integers, Sequences, FiniteSets, TLC

VARIABLES
    call_states,    \* app.py:41 dict call_control_id -> call state dict
    conversations,  \* openai_service.py:19 dict call_control_id -> history list
    transcribing,   \* handle_recording_saved coroutines suspended at app.py:142
    sleeping,       \* handle_recording_saved coroutines suspended at app.py:166/171/187
    timers,         \* check_for_speech tasks suspended at app.py:223
    issued,         \* collaborator actions requested by the last step, in order
    last,           \* the delivery or resumption handled by the last step
    obs,            \* per call observations of the run (history of the trace)
    streak,         \* per call count of consecutive unusable transcripts (observation)
    tts,            \* a call of TTSService.generate_speech: its inputs, what the
                    \* engines do, the engines it tried and what it gave back
    customers       \* customer_service.py:22 dict phone number -> CustomerProfile

vars == <<call_states, conversations, transcribing, sleeping, timers, issued, last, obs, streak,
          tts, customers>>

----------------------------------------------------------------------------
(* Bounds of the model *)

\* Spec explores every interleaving of the first turns of a call:
\* handle_recording_saved coroutines in flight per call (either suspension)
MaxInFlight == 2
\* check_for_speech tasks pending per call
MaxTimers == 2
\* largest conversation_turn explored
MaxTurnSeen == 3
\* longest history explored
MaxHistorySeen == 4
\* SpecLong follows a call past the turn limit and the history past its
\* limit, with less overlap:
LongInFlight == 1
LongTimers == 1
LongTurnSeen == 12
\* SpecTwo follows two calls side by side through their first turns:
TwoInFlight == 1
TwoTimers == 1
TwoTurnSeen == 1
TwoHistorySeen == 2
\* generation returns an unusable reply only while the history is this short
MaxOddHistory == 0

(* Program constants *)

\* app.py:135  if call_state["conversation_turn"] > 10
TurnLimit == 10
\* openai_service.py:65  if len(conversation_history) > 20
HistoryLimit == 20
\* app.py:146  len(transcript.strip()) > 3
MinTranscript == 3
\* app.py:161  len(ai_response.strip()) > 10
MinReply == 10

----------------------------------------------------------------------------
(* Identifiers and texts *)

AllCalls == {"A", "B"}
Calls == {"A"}

NoFrom == "<absent>"
Froms == {NoFrom, "+1234567890", "+5555555555"}

None == "<None>"

\* event types the webhook acknowledges without calling a handler:
\* call.speak.started (app.py:62-64) and one the if-chain does not know
IgnoredEvents == {"call.speak.started", "call.bridged"}

TransferMsg == "I apologize, but I need to transfer you to a human agent. Thank you for calling."
FallbackMsg == "I didn't catch that. Could you please repeat?"
GentlePrompt == "I didn't hear anything. Could you please speak up or say hello?"
SpecificPrompt == "I'm still not hearing you. You can ask me about appointments, business hours, or services. Please speak clearly."
HelpPrompt == "I'm having trouble hearing you. You can say things like 'schedule appointment' or 'business hours'. Please try again."
ApologyMsg == "I apologize, I'm having trouble processing your request. Could you please repeat that?"
GenericGreeting == "Hello! Thank you for calling. How can I help you today?"

\* what the transcription provider can do with a recording
TranscribeOutcomes == {"<error>", "<no channels>", "", "ok", "I need an appointment"}
\* what the generation provider can do with a request
GenerateOutcomes == {"<error>", None, "  Sure.     ", "Sure, what day works for you?"}

\* str.strip() on the texts of the model: only one of them is padded
Strip(s) == IF s = "  Sure.     " THEN "Sure." ELSE s

----------------------------------------------------------------------------
(* Python dict helpers *)

\* a removal that empties the dict: d.clear()
Del_clear(d, k) == [x \in {} |-> d[x]]

Put(d, k, v) == [x \in DOMAIN d \cup {k} |-> IF x = k THEN v ELSE d[x]]
Del(d, k) == [x \in DOMAIN d \ {k} |-> d[x]]
EmptyDict == [x \in {} |-> 0]

Act(kind, c, text) == [kind |-> kind, call |-> c, text |-> text]
Ev(op, c, arg, status) == [op |-> op, call |-> c, arg |-> arg, status |-> status]

----------------------------------------------------------------------------
(* customer_service.py *)

BusinessName(from) ==
    CASE from = "+1234567890" -> "Beautiful Hair Salon"
      [] from = "+0987654321" -> "Luxury Day Spa"
      [] OTHER -> None

Greeting(from) ==
    IF BusinessName(from) # None
    THEN "Hello! Thank you for calling " \o BusinessName(from) \o ". How can I help you today?"
    ELSE GenericGreeting

\* the phone numbers asked about: the two demo customers and a stranger
Phones == {"+1234567890", "+0987654321", "+5555555555"}

\* the fields of a CustomerProfile the voice settings depend on
CustomerProfile(tier, preference, language, voice_id) ==
    [subscription_tier |-> tier, tts_preference |-> preference,
     language |-> language, voice_id |-> voice_id]

\* _load_demo_customers
DemoCustomers ==
    [phone \in {"+1234567890", "+0987654321"} |->
        IF phone = "+1234567890"
        THEN CustomerProfile("basic", "polly", "en-US", None)
        ELSE CustomerProfile("premium", "elevenlabs", "en-US", "21m00Tcm4TlvDq8ikWAM")]

\* what a caller of update_customer_preferences may pass; None and "" are
\* the falsy values that leave a field alone
PreferenceArgs == {None, "", "polly", "elevenlabs", "azure"}
VoiceArgs == {None, "Matthew", "21m00Tcm4TlvDq8ikWAM"}
LanguageArgs == {None, "en-US", "es-ES"}

\* "if not customer": get_customer_profile gave None
HasProfile(phone) == phone \in DOMAIN customers

\* get_tts_service_for_customer that returns the stored preference for
\* every tier
get_tts_service_for_customer_anyTier(phone) ==
    IF ~HasProfile(phone) THEN "polly" ELSE customers[phone].tts_preference

\* get_tts_service_for_customer
get_tts_service_for_customer(phone) ==
    IF ~HasProfile(phone) THEN "polly"
    ELSE IF customers[phone].subscription_tier = "enterprise"
    THEN customers[phone].tts_preference
    ELSE IF customers[phone].subscription_tier = "premium"
    THEN (IF customers[phone].tts_preference = "elevenlabs" THEN "elevenlabs" ELSE "polly")
    ELSE "polly"

\* get_voice_settings
get_voice_settings(phone) ==
    IF ~HasProfile(phone)
    THEN [service |-> "polly", voice_id |-> None, language |-> "en-US"]
    ELSE [service |-> get_tts_service_for_customer(phone),
          voice_id |-> customers[phone].voice_id,
          language |-> customers[phone].language]

\* can_use_premium_tts
can_use_premium_tts(phone) ==
    IF ~HasProfile(phone) THEN FALSE
    ELSE customers[phone].subscription_tier \in {"premium", "enterprise"}

\* "if x:" on an optional string argument
Truthy(x) == x # None /\ x # ""

\* update_customer_preferences: overwrites the fields whose argument is
\* truthy; an unknown number is only logged
update_customer_preferences(phone, tts_preference, voice_id, language) ==
    /\ customers' =
           IF HasProfile(phone)
           THEN [customers EXCEPT
                    ![phone].tts_preference = IF Truthy(tts_preference) THEN tts_preference ELSE @,
                    ![phone].voice_id = IF Truthy(voice_id) THEN voice_id ELSE @,
                    ![phone].language = IF Truthy(language) THEN language ELSE @]
           ELSE customers
    /\ UNCHANGED <<call_states, conversations, transcribing, sleeping, timers, issued, last,
                   obs, streak, tts>>

----------------------------------------------------------------------------
(* Observations of a call, kept beside the program state:
   hungUp        CallHangup was processed and the call not answered again since
   greetings     greeting speak requests since the last hangup
   greetingEnded a SpeakEnded was delivered after the greeting was requested
   trimmed       the history was cut to HistoryLimit since the last hangup *)
NoObs(hung) == [hungUp |-> hung, greetings |-> 0, greetingEnded |-> FALSE, trimmed |-> FALSE]

\* no call of generate_speech is being followed
NoSpeechRequest == [result |-> [kind |-> "none"]]

Init ==
    /\ call_states = EmptyDict
    /\ conversations = EmptyDict
    /\ transcribing = [c \in AllCalls |-> 0]
    /\ sleeping = [c \in AllCalls |-> 0]
    /\ timers = [c \in AllCalls |-> 0]
    /\ issued = <<>>
    /\ last = Ev("start", "-", "-", 0)
    /\ obs = [c \in AllCalls |-> NoObs(FALSE)]
    /\ streak = [c \in AllCalls |-> 0]
    /\ tts = NoSpeechRequest
    /\ customers = DemoCustomers

Session(c) == call_states[c]
HasSession(c) == c \in DOMAIN call_states
History(c) == IF c \in DOMAIN conversations THEN conversations[c] ELSE <<>>
InFlight(c) == transcribing[c] + sleeping[c]

----------------------------------------------------------------------------
(* deepgram_service.py *)

\* transcribe_audio without the except branch of deepgram_service.py:51-53:
\* the failure comes back as text
transcribe_audio_noExcept(outcome) ==
    IF outcome = "<no channels>" THEN "" ELSE Strip(outcome)

\* transcribe_audio: "" when the download or the provider fails (except
\* branch) or when the response has no channels, else the stripped transcript
transcribe_audio(outcome) ==
    IF outcome \in {"<error>", "<no channels>"} THEN "" ELSE Strip(outcome)

----------------------------------------------------------------------------
(* openai_service.py *)

Entry(role, content) == [role |-> role, content |-> content]

\* a trim that is off by one: conversation_history[-21:]
LastEntries_offByOne(h) ==
    IF Len(h) > HistoryLimit THEN SubSeq(h, Len(h) - HistoryLimit, Len(h)) ELSE h

\* a trim that keeps the front: conversation_history[:20]
LastEntries_front(h) ==
    IF Len(h) > HistoryLimit THEN SubSeq(h, 1, HistoryLimit) ELSE h

\* conversation_history[-20:]
LastEntries(h) ==
    IF Len(h) > HistoryLimit THEN SubSeq(h, Len(h) - HistoryLimit + 1, Len(h)) ELSE h

\* generate_response, the history it leaves behind.  The entry is created
\* before the provider is called; both entries are appended and the list is
\* trimmed before the log line that slices the reply.
generate_response_history(user_input, c, outcome) ==
    IF outcome = "<error>"
    THEN History(c)
    ELSE LastEntries(History(c) \o <<Entry("user", user_input), Entry("assistant", outcome)>>)

\* generate_response without the except branch of openai_service.py:72-74:
\* the failure comes back as text
generate_response_noExcept(user_input, c, outcome) == outcome

\* generate_response, the text it returns: the apology on any exception,
\* including the TypeError of slicing a reply whose content is None
generate_response(user_input, c, outcome) ==
    IF outcome = "<error>" \/ outcome = None THEN ApologyMsg ELSE outcome

----------------------------------------------------------------------------
(* app.py *)

\* handle_call_initiated: answers the call; creates no call state

handle_call_initiated(c, from, ok) ==
    /\ IF from = NoFrom
       THEN /\ issued' = <<>>
            /\ last' = Ev("call.initiated", c, from, 500)
       ELSE /\ issued' = <<Act("answer", c, "")>>
            /\ last' = Ev("call.initiated", c, from, IF ok THEN 200 ELSE 500)
    /\ UNCHANGED <<call_states, conversations, transcribing, sleeping, timers, obs>>

\* handle_call_answered without the duplicate check of app.py:95-97
handle_call_answered_noDuplicateCheck(c, from, ok) ==
    IF from = NoFrom
    THEN /\ issued' = <<>>
         /\ last' = Ev("call.answered", c, from, 500)
         /\ UNCHANGED <<call_states, conversations, transcribing, sleeping, timers, obs>>
    ELSE /\ call_states' = Put(call_states, c,
                [answered |-> TRUE, greeting_spoken |-> ok,
                 conversation_turn |-> 0, last_response_time |-> None,
                 listening |-> FALSE])
         /\ issued' = <<Act("speak", c, Greeting(from))>>
         /\ last' = Ev("call.answered", c, from, IF ok THEN 200 ELSE 500)
         /\ obs' = [obs EXCEPT ![c] = [NoObs(FALSE) EXCEPT !.greetings = obs[c].greetings + 1,
                                                            !.trimmed = obs[c].trimmed]]
         /\ UNCHANGED <<conversations, transcribing, sleeping, timers>>

\* handle_call_answered
handle_call_answered(c, from, ok) ==
    IF from = NoFrom
    THEN /\ issued' = <<>>
         /\ last' = Ev("call.answered", c, from, 500)
         /\ UNCHANGED <<call_states, conversations, transcribing, sleeping, timers, obs>>
    ELSE IF HasSession(c) /\ Session(c).answered
    THEN /\ issued' = <<>>
         /\ last' = Ev("call.answered", c, from, 200)
         /\ UNCHANGED <<call_states, conversations, transcribing, sleeping, timers, obs>>
    ELSE /\ call_states' = Put(call_states, c,
                [answered |-> TRUE, greeting_spoken |-> ok,
                 conversation_turn |-> 0, last_response_time |-> None,
                 listening |-> FALSE])
         /\ issued' = <<Act("speak", c, Greeting(from))>>
         /\ last' = Ev("call.answered", c, from, IF ok THEN 200 ELSE 500)
         /\ obs' = [obs EXCEPT ![c] = [NoObs(FALSE) EXCEPT !.greetings = obs[c].greetings + 1,
                                                            !.trimmed = obs[c].trimmed]]
         /\ UNCHANGED <<conversations, transcribing, sleeping, timers>>

\* the turn the guard would see if it were consulted before the increment
TurnAfter_beforeIncrement(c) == IF HasSession(c) THEN Session(c).conversation_turn ELSE 0

\* the turn a RecordingSaved delivery leaves in the call state (app.py:130-132)
TurnAfter(c) == IF HasSession(c) THEN Session(c).conversation_turn + 1 ELSE 0

\* handle_recording_saved with a guard that trips once: conversation_turn == 11
handle_recording_saved_guardOnce(c, fail) ==
    /\ call_states' = IF HasSession(c) /\ fail # 3
                      THEN [call_states EXCEPT ![c].conversation_turn = @ + 1]
                      ELSE call_states
    /\ IF fail = 3
       THEN /\ issued' = <<>>
            /\ last' = Ev("call.recording.saved", c, "-", 500)
            /\ UNCHANGED transcribing
       ELSE IF HasSession(c) /\ TurnAfter(c) = TurnLimit + 1
       THEN /\ issued' = IF fail = 1
                         THEN <<Act("speak", c, TransferMsg)>>
                         ELSE <<Act("speak", c, TransferMsg), Act("hangup", c, "")>>
            /\ last' = Ev("call.recording.saved", c, "-", IF fail = 0 THEN 200 ELSE 500)
            /\ UNCHANGED transcribing
       ELSE /\ fail = 0
            /\ issued' = <<Act("transcribe", c, "")>>
            /\ last' = Ev("call.recording.saved", c, "-", 0)
            /\ transcribing' = [transcribing EXCEPT ![c] = @ + 1]
    /\ UNCHANGED <<conversations, sleeping, timers, obs>>

\* handle_recording_saved, from the delivery to the first suspension
\* (app.py:125-142).  fail = 1: the speak request raises, 2: the hangup
\* does, 3: the payload has no recording_urls (KeyError at app.py:126).
handle_recording_saved(c, fail) ==
    /\ call_states' = IF HasSession(c) /\ fail # 3
                      THEN [call_states EXCEPT ![c].conversation_turn = @ + 1]
                      ELSE call_states
    /\ IF fail = 3
       THEN /\ issued' = <<>>
            /\ last' = Ev("call.recording.saved", c, "-", 500)
            /\ UNCHANGED transcribing
       ELSE IF HasSession(c) /\ TurnAfter(c) > TurnLimit
       THEN /\ issued' = IF fail = 1
                         THEN <<Act("speak", c, TransferMsg)>>
                         ELSE <<Act("speak", c, TransferMsg), Act("hangup", c, "")>>
            /\ last' = Ev("call.recording.saved", c, "-", IF fail = 0 THEN 200 ELSE 500)
            /\ UNCHANGED transcribing
       ELSE /\ fail = 0
            /\ issued' = <<Act("transcribe", c, "")>>
            /\ last' = Ev("call.recording.saved", c, "-", 0)
            /\ transcribing' = [transcribing EXCEPT ![c] = @ + 1]
    /\ UNCHANGED <<conversations, sleeping, timers, obs>>

\* "transcript and len(transcript.strip()) > 3"
Meaningful(transcript) == transcript # "" /\ Len(Strip(transcript)) > MinTranscript

\* "ai_response and len(ai_response.strip()) > 10"
Adequate(reply) == reply # "" /\ reply # None /\ Len(Strip(reply)) > MinReply

\* a re-prompt chosen one turn late: the tests of app.py:177-180 against 0 and 1
SilencePrompt_oneLate(turn) ==
    IF turn = 0 THEN GentlePrompt
    ELSE IF turn = 1 THEN SpecificPrompt
    ELSE HelpPrompt

\* the re-prompt of app.py:177-185
SilencePrompt(turn) ==
    IF turn = 1 THEN GentlePrompt
    ELSE IF turn = 2 THEN SpecificPrompt
    ELSE HelpPrompt

\* handle_recording_saved, resumed with the transcription result up to the
\* sleep (app.py:142-187).  tr: what the transcription did, gen: what the
\* generation did, ok: whether the speak request went through.
recording_transcribed(c, tr, gen, ok) ==
    /\ transcribing[c] > 0
    /\ transcribing' = [transcribing EXCEPT ![c] = @ - 1]
    /\ LET transcript == transcribe_audio(tr) IN
       IF Meaningful(transcript)
       THEN /\ conversations' = Put(conversations, c, generate_response_history(transcript, c, gen))
            /\ LET ai_response == generate_response(transcript, c, gen) IN
               issued' = <<Act("generate", c, transcript),
                           Act("speak", c, IF Adequate(ai_response) THEN ai_response ELSE FallbackMsg)>>
            /\ last' = Ev("transcribed", c, <<tr, gen>>, IF ok THEN 0 ELSE 500)
            /\ sleeping' = [sleeping EXCEPT ![c] = IF ok THEN @ + 1 ELSE @]
       ELSE /\ gen = "<error>"    \* generation is not called: gen is not read
            /\ UNCHANGED conversations
            /\ IF HasSession(c)
               THEN /\ issued' = <<Act("speak", c, SilencePrompt(Session(c).conversation_turn))>>
                    /\ last' = Ev("transcribed", c, <<tr, "-">>, IF ok THEN 0 ELSE 500)
                    /\ sleeping' = [sleeping EXCEPT ![c] = IF ok THEN @ + 1 ELSE @]
               ELSE /\ ok               \* nothing is spoken: ok is not read
                    /\ issued' = <<>>
                    /\ last' = Ev("transcribed", c, <<tr, "-">>, 0)
                    /\ sleeping' = [sleeping EXCEPT ![c] = @ + 1]
    /\ obs' = [obs EXCEPT
                  ![c].trimmed = @ \/ (Meaningful(transcribe_audio(tr)) /\ gen # "<error>"
                                        /\ Len(History(c)) + 2 > HistoryLimit)]
    /\ UNCHANGED <<call_states, timers>>

\* handle_recording_saved, resumed after asyncio.sleep(1) (app.py:167/172/188)
recording_slept(c, ok) ==
    /\ sleeping[c] > 0
    /\ sleeping' = [sleeping EXCEPT ![c] = @ - 1]
    /\ issued' = <<Act("start_recording", c, "")>>
    /\ last' = Ev("slept", c, "-", IF ok THEN 200 ELSE 500)
    /\ UNCHANGED <<call_states, conversations, transcribing, timers, obs>>

\* handle_speak_ended without the create_task of app.py:203
handle_speak_ended_noTimer(c, ok) ==
    /\ obs' = [obs EXCEPT ![c].greetingEnded = @ \/ obs[c].greetings > 0]
    /\ IF HasSession(c) /\ Session(c).greeting_spoken
       THEN /\ issued' = <<Act("start_recording", c, "")>>
            /\ last' = Ev("call.speak.ended", c, "-", IF ok THEN 200 ELSE 500)
            /\ IF ok
               THEN call_states' = [call_states EXCEPT ![c].listening = TRUE]
               ELSE UNCHANGED call_states
       ELSE /\ ok
            /\ issued' = <<>>
            /\ last' = Ev("call.speak.ended", c, "-", 200)
            /\ UNCHANGED call_states
    /\ UNCHANGED <<conversations, transcribing, sleeping, timers>>

\* handle_speak_ended
handle_speak_ended(c, ok) ==
    /\ obs' = [obs EXCEPT ![c].greetingEnded = @ \/ obs[c].greetings > 0]
    /\ IF HasSession(c) /\ Session(c).greeting_spoken
       THEN /\ issued' = <<Act("start_recording", c, "")>>
            /\ last' = Ev("call.speak.ended", c, "-", IF ok THEN 200 ELSE 500)
            /\ IF ok
               THEN /\ call_states' = [call_states EXCEPT ![c].listening = TRUE]
                    /\ timers' = [timers EXCEPT ![c] = @ + 1]
               ELSE UNCHANGED <<call_states, timers>>
       ELSE /\ ok                       \* nothing is requested: ok is not read
            /\ issued' = <<>>
            /\ last' = Ev("call.speak.ended", c, "-", 200)
            /\ UNCHANGED <<call_states, timers>>
    /\ UNCHANGED <<conversations, transcribing, sleeping>>

\* handle_call_hangup without the call to clear_conversation of app.py:216
handle_call_hangup_keepsHistory(c) ==
    /\ call_states' = Del(call_states, c)
    /\ issued' = <<>>
    /\ last' = Ev("call.hangup", c, <<HasSession(c), c \in DOMAIN conversations>>, 200)
    /\ obs' = [obs EXCEPT ![c] = NoObs(TRUE)]
    /\ UNCHANGED <<conversations, transcribing, sleeping, timers>>

\* handle_call_hangup, with OpenAIService.clear_conversation
handle_call_hangup(c) ==
    /\ call_states' = Del(call_states, c)
    /\ conversations' = Del(conversations, c)
    /\ issued' = <<>>
    /\ last' = Ev("call.hangup", c, <<HasSession(c), c \in DOMAIN conversations>>, 200)
    /\ obs' = [obs EXCEPT ![c] = NoObs(TRUE)]
    /\ UNCHANGED <<transcribing, sleeping, timers>>

\* check_for_speech without the registry check of app.py:226-227
check_for_speech_noRegistryCheck(c) ==
    /\ timers[c] > 0
    /\ timers' = [timers EXCEPT ![c] = @ - 1]
    /\ issued' = <<Act("stop_recording", c, "")>>
    /\ last' = Ev("timer", c, "-", 0)
    /\ UNCHANGED <<call_states, conversations, transcribing, sleeping, obs>>

\* check_for_speech, resumed after asyncio.sleep(delay_seconds); an exception
\* of stop_recording is caught and logged, so its result changes nothing
check_for_speech(c) ==
    /\ timers[c] > 0
    /\ timers' = [timers EXCEPT ![c] = @ - 1]
    /\ issued' = IF ~HasSession(c) THEN <<>> ELSE <<Act("stop_recording", c, "")>>
    /\ last' = Ev("timer", c, "-", 0)
    /\ UNCHANGED <<call_states, conversations, transcribing, sleeping, obs>>

\* telnyx_webhook for an ignored event type, with a handler that drops the
\* pending check_for_speech tasks of the call
telnyx_webhook_ignored_dropsTimers(c, event_type) ==
    /\ issued' = <<>>
    /\ last' = Ev(event_type, c, "-", 200)
    /\ timers' = [timers EXCEPT ![c] = 0]
    /\ UNCHANGED <<call_states, conversations, transcribing, sleeping, obs>>

\* telnyx_webhook, the branches that call no handler: call.speak.started
\* and the final else both log and return 200 {"status": "ok"}
telnyx_webhook_ignored(c, event_type) ==
    /\ issued' = <<>>
    /\ last' = Ev(event_type, c, "-", 200)
    /\ UNCHANGED <<call_states, conversations, transcribing, sleeping, timers, obs>>

----------------------------------------------------------------------------
(* tts_service.py *)

TTSTexts == {"Hello", "Your appointment is confirmed"}
TTSServices == {"polly", "elevenlabs", "azure"}
TTSVoices == {None, "Matthew", "21m00Tcm4TlvDq8ikWAM"}
TTSLanguages == {"en-US", "es-ES", "fr-FR"}
EngineOutcomes == {"ok", "fail"}

\* what generate_speech gives back: the path of the audio file an engine
\* wrote, or the exception it raises
AudioPath(engine, voice) == [kind |-> "path", engine |-> engine, voice |-> voice]
Raised(text) == [kind |-> "raised", text |-> text]
Tried(attempts, result) == [attempts |-> attempts, result |-> result]

\* default_voices.get(language, "Joanna")
DefaultVoice(language) ==
    CASE language = "en-US" -> "Joanna"
      [] language = "es-ES" -> "Lucia"
      [] language = "es-MX" -> "Mia"
      [] OTHER -> "Joanna"

\* _generate_polly_speech: the path on success; an exception of the
\* provider or of the file write is logged and raised again
generate_polly_speech(text, voice_id, language, polly) ==
    LET voice == IF voice_id # None THEN voice_id ELSE DefaultVoice(language) IN
    IF polly = "ok"
    THEN Tried(<<"polly">>, AudioPath("polly", voice))
    ELSE Tried(<<"polly">>, Raised("polly"))

\* _generate_elevenlabs_speech with an except branch that raises again
generate_elevenlabs_speech_noFallback(text, voice_id, sdk, key, eleven, polly) ==
    LET voice == IF voice_id # None THEN voice_id ELSE "21m00Tcm4TlvDq8ikWAM" IN
    IF sdk /\ key /\ eleven = "ok"
    THEN Tried(<<"elevenlabs">>, AudioPath("elevenlabs", voice))
    ELSE Tried(<<"elevenlabs">>, Raised("elevenlabs"))

\* _generate_elevenlabs_speech: the path on success; when the SDK is not
\* installed, the key is missing or the provider or the file write fails,
\* the except branch calls _generate_polly_speech(text, voice_id), with
\* the default language, and gives back what that gives back
generate_elevenlabs_speech(text, voice_id, sdk, key, eleven, polly) ==
    LET voice == IF voice_id # None THEN voice_id ELSE "21m00Tcm4TlvDq8ikWAM" IN
    IF sdk /\ key /\ eleven = "ok"
    THEN Tried(<<"elevenlabs">>, AudioPath("elevenlabs", voice))
    ELSE LET fallback == generate_polly_speech(text, voice_id, "en-US", polly) IN
         Tried(<<"elevenlabs">> \o fallback.attempts, fallback.result)

\* generate_speech
generate_speech(r) ==
    IF r.service = "polly"
    THEN generate_polly_speech(r.text, r.voice_id, r.language, r.polly)
    ELSE IF r.service = "elevenlabs"
    THEN generate_elevenlabs_speech(r.text, r.voice_id, r.sdk, r.key, r.eleven, r.polly)
    ELSE Tried(<<>>, Raised("Unsupported TTS service"))

\* the calls of generate_speech and the environments they run in: sdk is
\* ELEVENLABS_AVAILABLE, key is whether ELEVENLABS_API_KEY is set, eleven
\* and polly are what the two providers do when they are asked
SpeechRequests ==
    [text : TTSTexts, service : TTSServices, voice_id : TTSVoices, language : TTSLanguages,
     sdk : BOOLEAN, key : BOOLEAN, eleven : EngineOutcomes, polly : EngineOutcomes,
     attempts : {<<>>}, result : {[kind |-> "pending"]}]

\* the call returns or raises
generate_speech_called ==
    /\ tts.result.kind = "pending"
    /\ tts' = [tts EXCEPT !.attempts = generate_speech(tts).attempts,
                          !.result = generate_speech(tts).result]
    /\ UNCHANGED <<call_states, conversations, transcribing, sleeping, timers, issued, last,
                   obs, streak, customers>>

----------------------------------------------------------------------------
(* The specifications *)

\* what the generation provider is let to answer for call c
GenerateOutcomesFor(c) ==
    IF Len(History(c)) <= MaxOddHistory
    THEN GenerateOutcomes
    ELSE {"<error>", "Sure, what day works for you?"}

\* the bounds of an exploration, on the state a step leads to
Within(turn, entries, inflight, pending) ==
    \A c \in AllCalls :
        /\ Len(History(c)) <= entries
        /\ InFlight(c) <= inflight
        /\ timers[c] <= pending
        /\ HasSession(c) => Session(c).conversation_turn <= turn

\* the streak observed after a step for call c: reset by an accepted
\* transcript, by a hangup and by a new session; 3 stands for 3 or more
StreakAfter(c) ==
    IF last'.op = "transcribed"
    THEN IF Meaningful(transcribe_audio(last'.arg[1])) THEN 0
         ELSE IF streak[c] >= 3 THEN 3 ELSE streak[c] + 1
    ELSE IF last'.op = "call.hangup" \/ (last'.op = "call.answered" /\ issued' # <<>>) THEN 0
    ELSE streak[c]

Short(c) ==
    /\ streak' = [streak EXCEPT ![c] = StreakAfter(c)]
    /\ UNCHANGED <<tts, customers>>
    /\ Within(MaxTurnSeen, MaxHistorySeen, MaxInFlight, MaxTimers)'

Long ==
    /\ UNCHANGED <<streak, tts, customers>>
    /\ Within(LongTurnSeen, HistoryLimit + 2, LongInFlight, LongTimers)'

Next ==
    \E c \in Calls :
        \/ (\E from \in Froms, ok \in BOOLEAN : handle_call_initiated(c, from, ok)) /\ Short(c)
        \/ (\E from \in Froms, ok \in BOOLEAN : handle_call_answered(c, from, ok)) /\ Short(c)
        \/ (\E fail \in 0..3 : handle_recording_saved(c, fail)) /\ Short(c)
        \/ (\E tr \in TranscribeOutcomes, gen \in GenerateOutcomesFor(c), ok \in BOOLEAN :
               recording_transcribed(c, tr, gen, ok)) /\ Short(c)
        \/ (\E ok \in BOOLEAN : recording_slept(c, ok)) /\ Short(c)
        \/ (\E ok \in BOOLEAN : handle_speak_ended(c, ok)) /\ Short(c)
        \/ handle_call_hangup(c) /\ Short(c)
        \/ check_for_speech(c) /\ Short(c)
        \/ (\E event_type \in IgnoredEvents : telnyx_webhook_ignored(c, event_type)) /\ Short(c)

NextLong ==
    \E c \in Calls :
        \/ (\E from \in Froms, ok \in BOOLEAN : handle_call_initiated(c, from, ok)) /\ Long
        \/ (\E from \in Froms, ok \in BOOLEAN : handle_call_answered(c, from, ok)) /\ Long
        \/ (\E fail \in 0..3 : handle_recording_saved(c, fail)) /\ Long
        \/ (\E tr \in TranscribeOutcomes, gen \in GenerateOutcomesFor(c), ok \in BOOLEAN :
               recording_transcribed(c, tr, gen, ok)) /\ Long
        \/ (\E ok \in BOOLEAN : recording_slept(c, ok)) /\ Long
        \/ (\E ok \in BOOLEAN : handle_speak_ended(c, ok)) /\ Long
        \/ handle_call_hangup(c) /\ Long
        \/ check_for_speech(c) /\ Long
        \/ (\E event_type \in IgnoredEvents : telnyx_webhook_ignored(c, event_type)) /\ Long

Two ==
    /\ UNCHANGED <<streak, tts, customers>>
    /\ Within(TwoTurnSeen, TwoHistorySeen, TwoInFlight, TwoTimers)'

\* the inputs of SpecTwo: one caller, a silent and a usable recording, a
\* failed and a usable generation; of the telephony requests only the
\* greeting and the capture after SpeakEnded may fail
TwoFroms == {"+1234567890"}
TwoTranscribeOutcomes == {"", "I need an appointment"}
TwoGenerateOutcomes == {"<error>", "Sure, what day works for you?"}

NextTwo ==
    \E c \in AllCalls :
        \/ (\E from \in TwoFroms : handle_call_initiated(c, from, TRUE)) /\ Two
        \/ (\E from \in TwoFroms, ok \in BOOLEAN : handle_call_answered(c, from, ok)) /\ Two
        \/ handle_recording_saved(c, 0) /\ Two
        \/ (\E tr \in TwoTranscribeOutcomes, gen \in TwoGenerateOutcomes :
               recording_transcribed(c, tr, gen, TRUE)) /\ Two
        \/ recording_slept(c, TRUE) /\ Two
        \/ (\E ok \in BOOLEAN : handle_speak_ended(c, ok)) /\ Two
        \/ handle_call_hangup(c) /\ Two
        \/ check_for_speech(c) /\ Two
        \/ telnyx_webhook_ignored(c, "call.speak.started") /\ Two

Spec == Init /\ [][Next]_vars

SpecTwo == Init /\ [][NextTwo]_vars

\* one call through its first turn, with the bounds and inputs of SpecTwo
NextLive ==
    \E c \in Calls :
        \/ (\E from \in TwoFroms : handle_call_initiated(c, from, TRUE)) /\ Two
        \/ (\E from \in TwoFroms, ok \in BOOLEAN : handle_call_answered(c, from, ok)) /\ Two
        \/ handle_recording_saved(c, 0) /\ Two
        \/ (\E tr \in TwoTranscribeOutcomes, gen \in TwoGenerateOutcomes :
               recording_transcribed(c, tr, gen, TRUE)) /\ Two
        \/ recording_slept(c, TRUE) /\ Two
        \/ (\E ok \in BOOLEAN : handle_speak_ended(c, ok)) /\ Two
        \/ handle_call_hangup(c) /\ Two
        \/ check_for_speech(c) /\ Two
        \/ telnyx_webhook_ignored(c, "call.speak.started") /\ Two

\* asyncio.sleep(delay_seconds) returns and the event loop resumes the
\* task: a pending check_for_speech is eventually run.  Events of the
\* provider are not forced to arrive.
SpecLive ==
    /\ Init
    /\ [][NextLive]_vars
    /\ \A c \in Calls : WF_vars(check_for_speech(c) /\ Two)

SpecLong == Init /\ [][NextLong]_vars

\* one call of generate_speech, for every request and environment
InitTTS ==
    /\ call_states = EmptyDict
    /\ conversations = EmptyDict
    /\ transcribing = [c \in AllCalls |-> 0]
    /\ sleeping = [c \in AllCalls |-> 0]
    /\ timers = [c \in AllCalls |-> 0]
    /\ issued = <<>>
    /\ last = Ev("start", "-", "-", 0)
    /\ obs = [c \in AllCalls |-> NoObs(FALSE)]
    /\ streak = [c \in AllCalls |-> 0]
    /\ tts \in SpeechRequests
    /\ customers = DemoCustomers

NextTTS == generate_speech_called

SpecTTS == InitTTS /\ [][NextTTS]_vars

\* the customer registry under any sequence of preference updates
NextCustomers ==
    \E phone \in Phones, tts_preference \in PreferenceArgs, voice_id \in VoiceArgs,
       language \in LanguageArgs :
        update_customer_preferences(phone, tts_preference, voice_id, language)

SpecCustomers == Init /\ [][NextCustomers]_vars

----------------------------------------------------------------------------
(* The claims *)

Telephony(c, kinds) == {i \in DOMAIN issued : issued[i].call = c /\ issued[i].kind \in kinds}

\* C1: the first CallAnswered of a call (since any hangup) requests exactly
\* one greeting speak and creates the call state; a further CallAnswered
\* requests nothing, changes no state and is acknowledged with 200.
C1_CallAnsweredIdempotent ==
    [][\A c \in Calls :
        (last'.op = "call.answered" /\ last'.call = c /\ last'.arg # NoFrom) =>
            /\ obs'[c].greetings = 1
            /\ IF obs[c].greetings = 0
               THEN /\ issued' = <<Act("speak", c, Greeting(last'.arg))>>
                    /\ c \in DOMAIN call_states'
                    /\ call_states'[c].conversation_turn = 0
               ELSE /\ issued' = <<>>
                    /\ last'.status = 200
                    /\ UNCHANGED <<call_states, conversations, transcribing, sleeping,
                                   timers, obs, streak>>]_vars

\* a duplicate CallAnswered has just been handled
C1_Witness ==
    /\ last.op = "call.answered"
    /\ last.arg # NoFrom
    /\ issued = <<>>
    /\ obs[last.call].greetings = 1

\* C2 (as claimed): once a call's turn counter has exceeded the limit, no
\* step of any handler or timer requests start_recording for that call.
C2_NoCaptureAfterTurnLimit ==
    [][\A c \in Calls :
        (HasSession(c) /\ Session(c).conversation_turn > TurnLimit) =>
            \A i \in DOMAIN issued' :
                ~(issued'[i].call = c /\ issued'[i].kind = "start_recording")]_vars

\* C3 (as claimed): when the RecordingSaved handler that tripped the turn
\* guard has returned, it has requested the transfer speak and then the
\* hangup, and the call has no call state and no conversation history.
C3_TurnLimitTearsDown ==
    \A c \in Calls :
        (last.op = "call.recording.saved" /\ last.call = c /\ last.status = 200) =>
            /\ issued = <<Act("speak", c, TransferMsg), Act("hangup", c, "")>>
            /\ ~HasSession(c)
            /\ c \notin DOMAIN conversations

\* C4: every conversation history has at most HistoryLimit entries and its
\* roles alternate user, assistant from the front.
C4_HistoryBoundedPaired ==
    \A c \in DOMAIN conversations :
        /\ Len(conversations[c]) <= HistoryLimit
        /\ \A i \in 1..Len(conversations[c]) :
               conversations[c][i].role = IF i % 2 = 1 THEN "user" ELSE "assistant"

\* a full history that has been trimmed
C4_Witness ==
    \E c \in DOMAIN conversations : obs[c].trimmed /\ Len(conversations[c]) = HistoryLimit

\* C5 (as claimed): the re-prompt spoken for an unusable transcript is the
\* gentle, the specific or the help prompt according to the number of
\* consecutive unusable transcripts since the last accepted one.  Stated for
\* the calls whose recordings were all processed in order: every turn is
\* either an exchange of the history or part of the current streak.
C5_PromptFollowsStreak ==
    \A c \in Calls :
        (/\ last.op = "transcribed"
         /\ last.call = c
         /\ HasSession(c)
         /\ Session(c).conversation_turn = Len(History(c)) \div 2 + streak[c]
         /\ ~Meaningful(transcribe_audio(last.arg[1]))) =>
            issued = <<Act("speak", c, SilencePrompt(streak[c]))>>

\* C6 (as claimed): no start_recording is requested for a call whose
\* greeting was spoken before a SpeakEnded has been delivered after it.
C6_NoCaptureBeforeGreetingEnded ==
    \A c \in Calls :
        (/\ HasSession(c)
         /\ Session(c).greeting_spoken
         /\ Telephony(c, {"start_recording"}) # {}) =>
            obs[c].greetingEnded

\* C7: a capture timer that fires for a call whose CallHangup has been
\* processed (and that has not been answered again since) requests nothing
\* and changes no state.
C7_TimerAfterHangupNoop ==
    [][\A c \in Calls :
        (last'.op = "timer" /\ last'.call = c /\ obs[c].hungUp) =>
            /\ issued' = <<>>
            /\ UNCHANGED <<call_states, conversations, transcribing, sleeping, obs, streak>>]_vars

\* a timer has fired after the hangup
C7_Witness ==
    /\ last.op = "timer"
    /\ obs[last.call].hungUp
    /\ issued = <<>>

\* C8 (as claimed): a capture timer requests stop_recording only when the
\* call state exists, is listening, has no RecordingSaved in process and has
\* not exceeded the turn limit.
C8_TimerStopsOnlyWhileListening ==
    \A c \in Calls :
        (last.op = "timer" /\ last.call = c /\ issued # <<>>) =>
            /\ HasSession(c)
            /\ Session(c).listening
            /\ InFlight(c) = 0
            /\ Session(c).conversation_turn <= TurnLimit

\* C9: CallHangup leaves the call with no call state and no history and is
\* acknowledged with 200; for a call that has neither, it changes nothing,
\* so a second CallHangup leaves the state of the first.
C9_HangupClearsAndIsIdempotent ==
    [][\A c \in Calls :
        (last'.op = "call.hangup" /\ last'.call = c) =>
            /\ c \notin DOMAIN call_states'
            /\ c \notin DOMAIN conversations'
            /\ last'.status = 200
            /\ issued' = <<>>
            /\ UNCHANGED <<transcribing, sleeping, timers>>
            /\ (~HasSession(c) /\ c \notin DOMAIN conversations) =>
                   UNCHANGED <<call_states, conversations>>
            /\ (last.op = "call.hangup" /\ last.call = c) =>
                   UNCHANGED <<call_states, conversations, obs, streak>>]_vars

\* a hangup has removed a call state and a history
C9_Witness ==
    /\ last.op = "call.hangup"
    /\ last.arg = <<TRUE, TRUE>>
    /\ ~HasSession(last.call)
    /\ last.call \notin DOMAIN conversations

\* C10 (as claimed): a coroutine or timer that was pending when CallHangup
\* removed the call state, and resumes right after it, requests no speak,
\* start_recording or stop_recording and leaves the call without history.
C10_HangupWinsRace ==
    [][\A c \in Calls :
        (/\ last.op = "call.hangup"
         /\ last.call = c
         /\ last.arg[1]
         /\ last'.op \in {"transcribed", "slept", "timer"}
         /\ last'.call = c) =>
            /\ \A i \in DOMAIN issued' :
                   issued'[i].kind \notin {"speak", "start_recording", "stop_recording"}
            /\ c \notin DOMAIN conversations']_vars

\* C11 (as claimed): the captures requested for one speak, by the
\* RecordingSaved handler after its delay and by the SpeakEnded of that
\* speak, are exactly one.  Stated for the speak of a reply or re-prompt
\* whose handler has just requested its capture, after the SpeakEnded of
\* the greeting was delivered: the SpeakEnded that follows is the one of
\* that speak and requests no second capture.
C11_OneCapturePerSpeak ==
    [][\A c \in Calls :
        (/\ last.op = "slept"
         /\ last.call = c
         /\ last.status = 200
         /\ obs[c].greetingEnded
         /\ HasSession(c)
         /\ Session(c).conversation_turn = 1
         /\ last'.op = "call.speak.ended"
         /\ last'.call = c) =>
            \A i \in DOMAIN issued' : issued'[i].kind # "start_recording"]_vars

\* C12 (as claimed): while a RecordingSaved handler of an answered call is
\* suspended (at the transcription or at its delay), a step for that call
\* that is not the resumption of a suspended handler leaves the call state
\* and the history as they are and starts no second handler.
C12_OneTransitionInFlight ==
    [][\A c \in Calls :
        (/\ HasSession(c)
         /\ InFlight(c) > 0
         /\ last'.call = c
         /\ last'.op \notin {"transcribed", "slept"}) =>
            /\ UNCHANGED <<call_states, conversations>>
            /\ InFlight(c)' <= 1]_vars

\* C13 (as claimed): every delivery that carries a call identifier is
\* answered 200, whatever the collaborators do and whether or not the
\* caller number is present (status 0: no response has been sent yet).
C13_OnlyMalformedRejected ==
    \A c \in Calls :
        (last.call = c /\ last.op # "timer") => last.status \in {0, 200}

\* C14: a call.speak.started event and an event of unrecognized type are
\* acknowledged with 200, request no collaborator action and leave every
\* call state, every history, the suspended handlers and the pending
\* timers unchanged.
C14_IgnoredEventsAreNoops ==
    [][last'.op \in IgnoredEvents =>
            /\ last'.status = 200
            /\ issued' = <<>>
            /\ UNCHANGED <<call_states, conversations, transcribing, sleeping, timers,
                           obs, streak>>]_vars

\* a call.speak.started was acknowledged for a call in conversation with a
\* timer pending
C14_Witness ==
    /\ last.op = "call.speak.started"
    /\ HasSession(last.call)
    /\ Len(History(last.call)) > 0
    /\ timers[last.call] > 0

\* C15 (as claimed): when a CallInitiated for a call has been handled and
\* acknowledged, the answer action has been requested and the call has a
\* call state in the registry, not yet answered.
C15_InitiatedCreatesSession ==
    \A c \in Calls :
        (last.op = "call.initiated" /\ last.call = c /\ last.status = 200) =>
            /\ issued = <<Act("answer", c, "")>>
            /\ HasSession(c)

\* C16 (as claimed): a step for a call that has no call state, and that
\* does not create one, requests no speak, start_recording, stop_recording,
\* hangup, transcription or generation for that call.
C16_NoActionWithoutSession ==
    [][\A c \in Calls :
        (~HasSession(c) /\ c \notin DOMAIN call_states') =>
            \A i \in DOMAIN issued' :
                issued'[i].call = c =>
                    issued'[i].kind \notin {"speak", "start_recording", "stop_recording",
                                            "hangup", "transcribe", "generate"}]_vars

(* The end-to-end scenario of call A: CallInitiated, CallAnswered from a
   number without profile, SpeakEnded, RecordingSaved with an empty
   transcript, RecordingSaved with "I need an appointment", CallHangup; every
   collaborator succeeds. *)
ScenarioFrom == "+5555555555"
ScenarioTranscript == "I need an appointment"
ScenarioReply == "Sure, what day works for you?"
ScenarioHistory == <<Entry("user", ScenarioTranscript), Entry("assistant", ScenarioReply)>>

\* call A has no call state, no history and no handler in flight
ScenarioIdle ==
    /\ ~HasSession("A")
    /\ "A" \notin DOMAIN conversations
    /\ InFlight("A") = 0

\* call A is answered and greeted, with the given turn counter, listening
\* flag, history and suspended handlers
ScenarioAt(turn, listening, history, tr, sl) ==
    /\ HasSession("A")
    /\ Session("A") = [answered |-> TRUE, greeting_spoken |-> TRUE,
                       conversation_turn |-> turn, last_response_time |-> None,
                       listening |-> listening]
    /\ History("A") = history
    /\ "A" \in DOMAIN conversations <=> history # <<>>
    /\ transcribing["A"] = tr
    /\ sleeping["A"] = sl

\* the step just taken handled this delivery or resumption of call A
ScenarioEvent(op, arg, status) == last' = Ev(op, "A", arg, status)

\* each event of the scenario, delivered in the state the events before it
\* leave, requests what the scenario says and leaves the state it says;
\* turn is the turn counter after the accepted transcript (the scenario
\* does not say whether the second RecordingSaved increments it on delivery
\* or on acceptance: the counter is turn or 2 while it is transcribed)
ScenarioStep(turn) ==
    /\ (ScenarioIdle /\ ScenarioEvent("call.initiated", ScenarioFrom, 200)) =>
           /\ issued' = <<Act("answer", "A", "")>>
           /\ ScenarioIdle'
    /\ (ScenarioIdle /\ ScenarioEvent("call.answered", ScenarioFrom, 200)) =>
           /\ issued' = <<Act("speak", "A", GenericGreeting)>>
           /\ ScenarioAt(0, FALSE, <<>>, 0, 0)'
    /\ (ScenarioAt(0, FALSE, <<>>, 0, 0) /\ ScenarioEvent("call.speak.ended", "-", 200)) =>
           /\ issued' = <<Act("start_recording", "A", "")>>
           /\ ScenarioAt(0, TRUE, <<>>, 0, 0)'
    /\ (ScenarioAt(0, TRUE, <<>>, 0, 0) /\ ScenarioEvent("call.recording.saved", "-", 0)) =>
           /\ issued' = <<Act("transcribe", "A", "")>>
           /\ ScenarioAt(1, TRUE, <<>>, 1, 0)'
    /\ (ScenarioAt(1, TRUE, <<>>, 1, 0) /\ ScenarioEvent("transcribed", <<"", "-">>, 0)) =>
           /\ issued' = <<Act("speak", "A", GentlePrompt)>>
           /\ ScenarioAt(1, TRUE, <<>>, 0, 1)'
    /\ (ScenarioAt(1, TRUE, <<>>, 0, 1) /\ ScenarioEvent("slept", "-", 200)) =>
           /\ issued' = <<Act("start_recording", "A", "")>>
           /\ ScenarioAt(1, TRUE, <<>>, 0, 0)'
    /\ (ScenarioAt(1, TRUE, <<>>, 0, 0) /\ ScenarioEvent("call.recording.saved", "-", 0)) =>
           /\ issued' = <<Act("transcribe", "A", "")>>
           /\ \E t \in turn..2 : ScenarioAt(t, TRUE, <<>>, 1, 0)'
    /\ ((\E t \in turn..2 : ScenarioAt(t, TRUE, <<>>, 1, 0))
        /\ ScenarioEvent("transcribed", <<ScenarioTranscript, ScenarioReply>>, 0)) =>
           /\ issued' = <<Act("generate", "A", ScenarioTranscript),
                          Act("speak", "A", ScenarioReply)>>
           /\ ScenarioAt(turn, TRUE, ScenarioHistory, 0, 1)'
    /\ (ScenarioAt(turn, TRUE, ScenarioHistory, 0, 1) /\ ScenarioEvent("slept", "-", 200)) =>
           /\ issued' = <<Act("start_recording", "A", "")>>
           /\ ScenarioAt(turn, TRUE, ScenarioHistory, 0, 0)'
    /\ (ScenarioAt(turn, TRUE, ScenarioHistory, 0, 0)
        /\ ScenarioEvent("call.hangup", <<TRUE, TRUE>>, 200)) =>
           /\ issued' = <<>>
           /\ ScenarioIdle'

\* C17 (as claimed): the scenario runs as described and the accepted
\* transcript leaves the turn counter at 1.
C17_ScenarioTurnOne == [][ScenarioStep(1)]_vars

\* C17 (amended): the scenario runs as described, except that the accepted
\* transcript, being the second RecordingSaved of the call, leaves the turn
\* counter at 2.
C17_ScenarioTurnTwo == [][ScenarioStep(2)]_vars

\* the reply of the scenario was spoken and its capture restarted
C17_Witness ==
    /\ last = Ev("slept", "A", "-", 200)
    /\ ScenarioAt(2, TRUE, ScenarioHistory, 0, 0)
    /\ obs["A"].greetings = 1
    /\ obs["A"].greetingEnded

\* C18: when the transcription of a recording fails, the resumed
\* RecordingSaved handler calls no generation and leaves the history and
\* the call state as they are; it speaks the re-prompt of the silence path
\* (for a call that has a call state) and, unless that speak request
\* raises, goes on to its delay, after which it starts the capture: what it
\* does for an empty transcript.
C18_TranscriptionFailureIsSilence ==
    [][\A c \in Calls :
        (last'.op = "transcribed" /\ last'.call = c /\ last'.arg[1] = "<error>") =>
            /\ transcribe_audio(last'.arg[1]) = transcribe_audio("")
            /\ \A i \in DOMAIN issued' : issued'[i].kind # "generate"
            /\ UNCHANGED <<conversations, call_states>>
            /\ issued' = IF HasSession(c)
                         THEN <<Act("speak", c, SilencePrompt(Session(c).conversation_turn))>>
                         ELSE <<>>
            /\ last'.status = 0 => sleeping'[c] = sleeping[c] + 1
            /\ last'.status # 0 => (issued' # <<>> /\ sleeping'[c] = sleeping[c])]_vars

\* a failed transcription was answered with the gentle prompt in a call
\* that has a history, and the handler is at its delay
C18_Witness ==
    /\ last.op = "transcribed"
    /\ last.arg[1] = "<error>"
    /\ last.status = 0
    /\ HasSession(last.call)
    /\ Len(History(last.call)) > 0
    /\ sleeping[last.call] > 0
    /\ \E i \in DOMAIN issued : issued[i].kind = "speak"

\* the texts a caller may hear: the greetings, a reply of the generation
\* provider, and the fixed messages
SpeakableTexts ==
    {Greeting(from) : from \in Froms \ {NoFrom}}
        \cup (GenerateOutcomes \ {"<error>", None})
        \cup {FallbackMsg, GentlePrompt, SpecificPrompt, HelpPrompt, TransferMsg, ApologyMsg}

\* C19: every text passed to a speak request is a greeting, a generated
\* reply or one of the fixed messages, never the text of an error; and when
\* the generation fails, the text spoken is the fixed apology.
C19_OnlySafeTextsSpoken ==
    /\ \A i \in DOMAIN issued :
           issued[i].kind = "speak" => issued[i].text \in SpeakableTexts
    /\ \A c \in Calls :
           (/\ last.op = "transcribed"
            /\ last.call = c
            /\ Meaningful(transcribe_audio(last.arg[1]))
            /\ last.arg[2] \in {"<error>", None}) =>
               issued = <<Act("generate", c, transcribe_audio(last.arg[1])),
                          Act("speak", c, ApologyMsg)>>

\* the generation failed and the apology was spoken
C19_Witness ==
    /\ last.op = "transcribed"
    /\ last.arg[2] = "<error>"
    /\ HasSession(last.call)
    /\ \E i \in DOMAIN issued : issued[i] = Act("speak", last.call, ApologyMsg)

\* the premium engine cannot deliver for this request
PremiumFails(r) == ~r.sdk \/ ~r.key \/ r.eleven = "fail"

\* C20: a finished call of generate_speech for the premium engine whose
\* premium attempt failed has tried the basic engine exactly once after it,
\* gives back the basic engine's audio path when that attempt succeeded and
\* raises only when it failed too; a call for the basic engine has tried
\* the basic engine only.
C20_PremiumFallsBackOnce ==
    tts.result.kind \in {"path", "raised"} =>
        /\ (tts.service = "elevenlabs" /\ PremiumFails(tts)) =>
               /\ tts.attempts = <<"elevenlabs", "polly">>
               /\ tts.polly = "ok" =>
                      (tts.result.kind = "path" /\ tts.result.engine = "polly")
               /\ tts.result.kind = "raised" <=> tts.polly = "fail"
        /\ (tts.service = "elevenlabs" /\ ~PremiumFails(tts)) =>
               /\ tts.attempts = <<"elevenlabs">>
               /\ tts.result.kind = "path" /\ tts.result.engine = "elevenlabs"
        /\ tts.service = "polly" => tts.attempts = <<"polly">>

\* the premium provider failed and the caller got the basic engine's audio
C20_Witness ==
    /\ tts.result.kind \in {"path", "raised"}
    /\ tts.service = "elevenlabs"
    /\ tts.sdk /\ tts.key /\ tts.eleven = "fail"
    /\ tts.attempts = <<"elevenlabs", "polly">>
    /\ tts.result.kind = "path"
    /\ tts.result.engine = "polly"

\* C21: a step that handles an event, a resumption or a timer of one call
\* leaves the call state, the history, the suspended handlers and the
\* pending timers of every other call unchanged and requests no action
\* addressed to another call.
C21_CallsAreIndependent ==
    [][\A c \in AllCalls : \A b \in AllCalls \ {c} :
        last'.call = c =>
            /\ HasSession(b)' <=> HasSession(b)
            /\ HasSession(b) => call_states'[b] = call_states[b]
            /\ (b \in DOMAIN conversations') <=> (b \in DOMAIN conversations)
            /\ History(b)' = History(b)
            /\ transcribing'[b] = transcribing[b]
            /\ sleeping'[b] = sleeping[b]
            /\ timers'[b] = timers[b]
            /\ \A i \in DOMAIN issued' : issued'[i].call = c]_vars

\* call A was hung up while call B was in conversation with a handler
\* suspended and a timer pending
C21_Witness ==
    /\ last.op = "call.hangup"
    /\ last.call = "A"
    /\ last.arg = <<TRUE, TRUE>>
    /\ HasSession("B")
    /\ Len(History("B")) > 0
    /\ InFlight("B") > 0
    /\ timers["B"] > 0

\* C22 (as claimed): a SpeakEnded delivered for a call that is already
\* listening (the greeting has ended before) requests no start_recording
\* and arms no timer.
C22_SpeakEndedOnlyForGreeting ==
    [][\A c \in Calls :
        (/\ HasSession(c)
         /\ Session(c).listening
         /\ last'.op = "call.speak.ended"
         /\ last'.call = c) =>
            /\ \A i \in DOMAIN issued' : issued'[i].kind # "start_recording"
            /\ timers'[c] = timers[c]]_vars

\* C23 (as claimed): a RecordingSaved delivered for a call that is not yet
\* listening (no SpeakEnded has started a capture), or that has an earlier
\* RecordingSaved handler still suspended, leaves the turn counter as it is
\* and requests no transcription, speak or capture.
C23_RecordingOnlyWhileListening ==
    [][\A c \in Calls :
        (/\ HasSession(c)
         /\ ~Session(c).listening \/ InFlight(c) > 0
         /\ last'.op = "call.recording.saved"
         /\ last'.call = c) =>
            /\ HasSession(c)'
            /\ call_states'[c].conversation_turn = call_states[c].conversation_turn
            /\ issued' = <<>>
            /\ transcribing'[c] = transcribing[c]]_vars

\* C24 (as claimed): at every moment a call has at most one
\* check_for_speech task pending.
C24_OneTimerPerCall ==
    \A c \in Calls : timers[c] <= 1

\* the last step was a SpeakEnded of call c that started the capture, set
\* the listening flag and armed the timer
EnteredListening(c) ==
    /\ last.op = "call.speak.ended"
    /\ last.call = c
    /\ last.status = 200
    /\ issued = <<Act("start_recording", c, "")>>

\* the last step was a timer of call c that requested stop_recording
StopIssued(c) ==
    /\ last.op = "timer"
    /\ last.call = c
    /\ issued = <<Act("stop_recording", c, "")>>

\* C25: whenever a SpeakEnded has put a call to listening, a pending timer
\* being eventually run, either stop_recording is eventually requested
\* for the call or the call state is removed by a hangup before.
C25_CaptureWindowEnds ==
    \A c \in Calls : EnteredListening(c) ~> (StopIssued(c) \/ ~HasSession(c))

\* a timer has stopped the capture of a listening call
C25_Witness ==
    /\ StopIssued("A")
    /\ HasSession("A")
    /\ Session("A").listening
    /\ timers["A"] = 0

\* C26 (as claimed): when the reply the generation gives back is empty or
\* too short, the fallback is spoken, the handler goes on to restart the
\* capture, and the history gets no assistant entry with that reply.
C26_InadequateReplyNotRecorded ==
    [][\A c \in Calls :
        (/\ last'.op = "transcribed"
         /\ last'.call = c
         /\ last'.status = 0
         /\ HasSession(c)
         /\ Meaningful(transcribe_audio(last'.arg[1]))
         /\ ~Adequate(generate_response(transcribe_audio(last'.arg[1]), c, last'.arg[2]))) =>
            /\ issued'[Len(issued')] = Act("speak", c, FallbackMsg)
            /\ sleeping'[c] = sleeping[c] + 1
            /\ \A i \in DOMAIN History(c)' :
                   History(c)'[i] # Entry("assistant", last'.arg[2])]_vars

\* the history of call c with the exchange of the step just taken appended
\* and not trimmed
Untrimmed(c) ==
    History(c) \o <<Entry("user", transcribe_audio(last'.arg[1])),
                    Entry("assistant", last'.arg[2])>>

\* C27: when a generation appends an exchange that takes the history past
\* HistoryLimit entries, the history kept is HistoryLimit long and its
\* i-th entry is the i-th of the last HistoryLimit entries of the untrimmed
\* sequence; it is the history the next generation starts from.
C27_TrimKeepsLastEntries ==
    [][\A c \in Calls :
        (/\ last'.op = "transcribed"
         /\ last'.call = c
         /\ Meaningful(transcribe_audio(last'.arg[1]))
         /\ last'.arg[2] # "<error>"
         /\ Len(History(c)) + 2 > HistoryLimit) =>
            /\ c \in DOMAIN conversations'
            /\ Len(conversations'[c]) = HistoryLimit
            /\ \A i \in 1..HistoryLimit :
                   conversations'[c][i] = Untrimmed(c)[i + Len(Untrimmed(c)) - HistoryLimit]]_vars

\* an exchange was appended to a full history and the oldest exchange dropped
C27_Witness ==
    /\ last.op = "transcribed"
    /\ last.arg[2] = "Sure, what day works for you?"
    /\ obs[last.call].trimmed
    /\ Len(History(last.call)) = HistoryLimit
    /\ History(last.call)[HistoryLimit] = Entry("assistant", last.arg[2])
    /\ History(last.call)[HistoryLimit - 1] = Entry("user", transcribe_audio(last.arg[1]))

\* C28: a call state is created with turn counter 0; while it exists, a
\* RecordingSaved that is processed (its payload has a recording) adds
\* exactly one, and the guard is consulted on the incremented value: the
\* transfer message is requested exactly when the new value exceeds
\* TurnLimit; every other step leaves the counter as it is.
C28_TurnCounterMonotone ==
    [][\A c \in Calls :
        /\ (~HasSession(c) /\ HasSession(c)') => call_states'[c].conversation_turn = 0
        /\ (HasSession(c) /\ HasSession(c)') =>
               IF last'.op = "call.recording.saved" /\ last'.call = c /\ issued' # <<>>
               THEN /\ call_states'[c].conversation_turn = call_states[c].conversation_turn + 1
                    /\ (call_states'[c].conversation_turn > TurnLimit)
                           <=> (issued'[1] = Act("speak", c, TransferMsg))
               ELSE call_states'[c].conversation_turn = call_states[c].conversation_turn]_vars

\* the RecordingSaved that takes the counter past the limit has tripped the guard
C28_Witness ==
    /\ last.op = "call.recording.saved"
    /\ HasSession(last.call)
    /\ Session(last.call).conversation_turn = TurnLimit + 1
    /\ issued # <<>>
    /\ issued[1] = Act("speak", last.call, TransferMsg)

\* C29: a RecordingSaved (with a recording in its payload) for a call whose
\* turn counter already exceeds TurnLimit requests the transfer message
\* and then, unless that speak request raises, the hangup; it requests no
\* transcription, generation or capture, suspends no handler and leaves
\* the history as it is.
C29_GuardTripsAgain ==
    [][\A c \in Calls :
        (/\ HasSession(c)
         /\ Session(c).conversation_turn > TurnLimit
         /\ last'.op = "call.recording.saved"
         /\ last'.call = c
         /\ ~(issued' = <<>> /\ last'.status = 500)) =>
            /\ issued' \in {<<Act("speak", c, TransferMsg), Act("hangup", c, "")>>,
                            <<Act("speak", c, TransferMsg)>>}
            /\ Len(issued') = 1 => last'.status = 500
            /\ last'.status = 200 =>
                   issued' = <<Act("speak", c, TransferMsg), Act("hangup", c, "")>>
            /\ UNCHANGED <<transcribing, sleeping, timers, conversations>>]_vars

\* the guard has tripped a second time for the same call state
C29_Witness ==
    /\ last.op = "call.recording.saved"
    /\ last.status = 200
    /\ HasSession(last.call)
    /\ Session(last.call).conversation_turn = TurnLimit + 2
    /\ issued = <<Act("speak", last.call, TransferMsg), Act("hangup", last.call, "")>>

\* C30 (as claimed): when the generation call of an answered call fails and
\* gives back the apology, the entries of the call's history are exactly
\* what they were before the call.
C30_FailedGenerationKeepsHistory ==
    [][\A c \in Calls :
        (/\ last'.op = "transcribed"
         /\ last'.call = c
         /\ HasSession(c)
         /\ Meaningful(transcribe_audio(last'.arg[1]))
         /\ last'.arg[2] \in {"<error>", None}
         /\ generate_response(transcribe_audio(last'.arg[1]), c, last'.arg[2]) = ApologyMsg) =>
            History(c)' = History(c)]_vars

\* C31: for every phone number, in every state of the customer registry
\* that preference updates can reach: the voice settings name elevenlabs
\* only if can_use_premium_tts holds for the number; a number without
\* profile and a basic customer get polly; a premium customer gets
\* elevenlabs exactly when elevenlabs is the stored preference, else polly.
C31_PremiumEngineOnlyForPremiumTier ==
    \A phone \in Phones :
        /\ get_voice_settings(phone).service = "elevenlabs" => can_use_premium_tts(phone)
        /\ ~HasProfile(phone) =>
               (get_voice_settings(phone).service = "polly" /\ ~can_use_premium_tts(phone))
        /\ (HasProfile(phone) /\ customers[phone].subscription_tier = "basic") =>
               (get_voice_settings(phone).service = "polly" /\ ~can_use_premium_tts(phone))
        /\ (HasProfile(phone) /\ customers[phone].subscription_tier = "premium") =>
               /\ can_use_premium_tts(phone)
               /\ get_voice_settings(phone).service =
                      IF customers[phone].tts_preference = "elevenlabs"
                      THEN "elevenlabs" ELSE "polly"

\* the basic customer has asked for elevenlabs and still gets polly, and
\* the premium customer has switched to polly
C31_Witness ==
    /\ customers["+1234567890"].tts_preference = "elevenlabs"
    /\ get_voice_settings("+1234567890").service = "polly"
    /\ customers["+0987654321"].tts_preference = "polly"
    /\ get_voice_settings("+0987654321").service = "polly"
    /\ "+5555555555" \notin DOMAIN customers

====
